---------------------------- MODULE Spec2Model ----------------------------
(***************************************************************************)
(* A model of the Azure blob storage backend (physical/azure/azure.go):    *)
(* construction (NewAzureBackend) and the four operations Put, Get, Delete *)
(* and List, run by concurrent callers against one remote container.       *)
(*                                                                         *)
(* Strings are sequences of one-character strings, so that TrimPrefix,     *)
(* Index, Atoi and the byte order used by sort.Strings are computed.       *)
(***************************************************************************)
EXTENDS Integers, Sequences, FiniteSets, TLC

(***************************************************************************)
(* Strings                                                                 *)
(***************************************************************************)
Slash == "/"

\* The byte value of a character (ASCII), the order sort.Strings compares by.
Ord(ch) ==
    CASE ch = "-" -> 45
      [] ch = "/" -> 47
      [] ch = "0" -> 48
      [] ch = "1" -> 49
      [] ch = "2" -> 50
      [] ch = "a" -> 97
      [] ch = "b" -> 98
      [] ch = "c" -> 99
      [] ch = "d" -> 100
      [] ch = "e" -> 101
      [] ch = "f" -> 102
      [] ch = "g" -> 103

\* Go's s < t on strings: bytewise lexicographic order.
RECURSIVE StrLess(_, _)
StrLess(s, t) ==
    IF t = <<>> THEN FALSE
    ELSE IF s = <<>> THEN TRUE
    ELSE IF Ord(Head(s)) < Ord(Head(t)) THEN TRUE
    ELSE IF Ord(Head(s)) > Ord(Head(t)) THEN FALSE
    ELSE StrLess(Tail(s), Tail(t))

\* strings.HasPrefix
HasPrefix(s, p) ==
    /\ Len(p) <= Len(s)
    /\ SubSeq(s, 1, Len(p)) = p

\* strings.TrimPrefix: s without the leading p, or s itself.
TrimPrefix(s, p) ==
    IF HasPrefix(s, p) THEN SubSeq(s, Len(p) + 1, Len(s)) ELSE s

\* strings.Index(s, "/"): the 0-based index of the first "/", or -1.
IndexSlash(s) ==
    IF \E i \in 1..Len(s) : s[i] = Slash
    THEN (CHOOSE i \in 1..Len(s) :
              /\ s[i] = Slash
              /\ \A j \in 1..(i - 1) : s[j] # Slash) - 1
    ELSE -1

\* strutil.AppendIfMissing: slice with i appended unless it holds i already.
AppendIfMissing(slice, i) ==
    IF \E n \in 1..Len(slice) : slice[n] = i THEN slice ELSE Append(slice, i)

\* Insertion of one string into an ascending sequence, after its equals.
RECURSIVE InsertSorted(_, _)
InsertSorted(sorted, s) ==
    IF sorted = <<>> THEN <<s>>
    ELSE IF StrLess(s, Head(sorted)) THEN <<s>> \o sorted
    ELSE <<Head(sorted)>> \o InsertSorted(Tail(sorted), s)

\* sort.Strings: the same strings (duplicates kept) in ascending order.
RECURSIVE SortStrings(_)
SortStrings(a) ==
    IF a = <<>> THEN <<>>
    ELSE InsertSorted(SortStrings(SubSeq(a, 1, Len(a) - 1)), a[Len(a)])

(***************************************************************************)
(* Values, entries and errors                                              *)
(***************************************************************************)
\* MaxBlobSize at this time
MaxBlobSize == 1024 * 1024 * 4
\* MaxListResults is the current default value, setting explicitly
MaxListResults == 5000

\* A byte sequence is kept as its length and a tag that stands for its content:
\* two values are equal exactly when both agree.
Val(n, t) == [len |-> n, tag |-> t]
\* No byte sequence at all (an object that does not exist, a nil slice).
NoVal == [len |-> -1, tag |-> "none"]

\* error values: nil, an azblob.StorageError with its service code, any other
\* error of the pipeline (transport failure, cancelled or expired context),
\* the fmt.Errorf of Put, and an errwrap.Wrapf around another error.
MkErr(kind, code, ctx, key, inner) ==
    [kind |-> kind, code |-> code, ctx |-> ctx, key |-> key, inner |-> inner]
NilErr == MkErr("nil", "", "", <<>>, "")
StorageError(code) == MkErr("storage", code, "", <<>>, "")
TransportError == MkErr("transport", "", "", <<>>, "")
SizeLimitError == MkErr("errorf", "", "value is bigger than the current supported limit of 4MBytes", <<>>, "")
\* errwrap.Wrapf(fmt.Sprintf(ctx, key), err)
Wrapf(ctx, key, err) == MkErr("wrapped", err.code, ctx, key, err.kind)

\* errors.As(err, &e) with e an azblob.StorageError
IsStorageError(err) == err.kind = "storage"

\* *physical.Entry, nil included
NilEntry == [isNil |-> TRUE, Key |-> <<>>, Value |-> NoVal]
Entry(k, v) == [isNil |-> FALSE, Key |-> k, Value |-> v]

\* []string, nil included
NilList == [isNil |-> TRUE, items |-> <<>>]
List(items) == [isNil |-> FALSE, items |-> items]

(***************************************************************************)
(* Bounds of the model                                                     *)
(***************************************************************************)
\* The concurrent callers of one backend.
NumCallers == 2
Callers == 1..NumCallers

kA == <<"a">>
kB == <<"b">>
kBC == <<"b", "/", "c">>
kBD == <<"b", "/", "d">>
kEFG == <<"e", "/", "f", "/", "g">>

\* The object names the container may hold.
Names == {kA, kB, kBC, kBD, kEFG}
\* The two callers of the specifications that are about one operation.
Writers == {1, 2}
\* The keys the concurrent callers Put, Get and Delete.
OpKeys == {kBC, kBD}
\* The keys put and deleted while another caller lists.
PageKeys == {kB, kBC, kBD}
\* The values put where only the slots matter: one that fits, two that do not.
AdmitValues == {Val(1, "x"), Val(MaxBlobSize, "x"), Val(MaxBlobSize + 1, "y")}
\* The values they Put: two that fit, the largest among them, and the two
\* smallest that do not.
PutValues == {Val(1, "x"), Val(MaxBlobSize - 1, "y"),
              Val(MaxBlobSize, "x"), Val(MaxBlobSize + 1, "y")}
\* The prefixes they List.
OpPrefixes == {<<>>, <<"b", "/">>, <<"b">>}
\* The prefixes listed over the preloaded containers.
AllPrefixes == {<<>>, <<"b", "/">>, <<"e", "/">>, <<"e", "/", "f", "/">>,
                <<"b">>, <<"b", "/", "c">>, <<"g">>}

(***************************************************************************)
(* State                                                                   *)
(***************************************************************************)
VARIABLES
    blobs,        \* the container's objects: name -> value, NoVal when absent
    backendConf,  \* the conf map the backend was constructed with
    permitPool,   \* a.permitPool: [size, used] of the semaphore channel
    pc,           \* each caller's position: idle, acquire (waiting for a
                  \* slot), call (in a remote call), read (reading the body),
                  \* ret (returning res, the deferred calls still to run),
                  \* rejected (returning res without having acquired)
    req,          \* each caller's call: op, key, value
    res,          \* what that call returns: entry, list, err; remote: the
                  \* error of its last remote call
    marker,       \* List: the azblob.Marker of the next page request
    keys,         \* List: the keys accumulated so far
    body,         \* Get: the response body still to be read
    lastApplied,  \* history: per name, whose upload the remote applied last
    okPut,        \* history: per name, the value of a Put that returned nil,
                  \* while no other upload or delete of the name was applied
    expect,       \* history: okPut of the key when a Get's download answered
    issued        \* each caller's remote calls issued under the slot it holds

opvars == <<blobs, backendConf, permitPool, pc, req, res, marker, keys, body,
            lastApplied, okPut, expect, issued>>

VARIABLES
    container,    \* the remote container: exists, access, metadata
    npc,          \* each construction's position: start, probe, create,
                  \* maxpar, done
    nconf,        \* its conf map
    nenv,         \* its process environment
    nsettings,    \* the settings it resolved
    ncalls,       \* the remote calls it has issued, by kind
    nremote,      \* the errors GetProperties and Create answered it with
    nres          \* what it returns: backend (nil or its permit pool), err

newvars == <<container, npc, nconf, nenv, nsettings, ncalls, nremote, nres>>

VARIABLES
    ClusterName,  \* ClusterMetricSink.ClusterName: the atomic.Value's string
    spc,          \* each SetDefaultClusterName call's position: idle, loaded
                  \* (between its Load and its Store)
    sarg,         \* its clusterName argument
    sloaded       \* the string its Load returned

sinkvars == <<ClusterName, spc, sarg, sloaded>>

vars == <<blobs, backendConf, permitPool, pc, req, res, marker, keys, body,
          lastApplied, okPut, expect, issued,
          container, npc, nconf, nenv, nsettings, ncalls, nremote, nres,
          ClusterName, spc, sarg, sloaded>>

(***************************************************************************)
(* Configuration values                                                    *)
(***************************************************************************)
Digits == <<"0", "1", "2", "3", "4", "5", "6", "7", "8", "9">>
IsDigit(ch) == \E i \in 1..10 : Digits[i] = ch
DigitVal(ch) == (CHOOSE i \in 1..10 : Digits[i] = ch) - 1

RECURSIVE DigitsValue(_, _)
DigitsValue(s, acc) ==
    IF s = <<>> THEN acc ELSE DigitsValue(Tail(s), acc * 10 + DigitVal(Head(s)))

\* strconv.Atoi: an optional sign, then one or more decimal digits; anything
\* else is a syntax error (value 0). Inputs stay far below the int range.
Atoi(s) ==
    LET signed == s # <<>> /\ Head(s) \in {"+", "-"}
        ds == IF signed THEN Tail(s) ELSE s
        good == ds # <<>> /\ \A i \in 1..Len(ds) : IsDigit(ds[i])
        n == IF good THEN DigitsValue(ds, 0) ELSE 0
    IN  [val |-> IF signed /\ Head(s) = "-" THEN 0 - n ELSE n,
         err |-> IF good THEN NilErr
                 ELSE MkErr("syntax", "", "strconv.Atoi", s, "")]

\* conf[k] of a Go map[string]string, and os.Getenv(k): "" when k is absent.
\* Strings that are only compared (names, keys, endpoints) are kept whole.
MapGet(m, k) == IF k \in DOMAIN m THEN m[k] ELSE ""

(***************************************************************************)
(* The permit pool (sdk/physical)                                          *)
(***************************************************************************)
\* The pool size used when none is configured: more than any caller count.
DefaultParallelOperations == 128

\* physical.NewPermitPool: a semaphore of `permits` slots, the default size
\* when permits < 1.
NewPermitPool(permits) ==
    [size |-> IF permits < 1 THEN DefaultParallelOperations ELSE permits,
     used |-> 0]
\* Acquire blocks while every slot is taken.
PoolHasFree(p) == p.used < p.size
PoolAcquire(p) == [p EXCEPT !.used = @ + 1]
PoolRelease(p) == [p EXCEPT !.used = @ - 1]

\* NewAzureBackend, the max_parallel part: the parsed value (0 when the key is
\* absent) and the parse error.
ParseMaxParallel(conf) ==
    IF "max_parallel" \in DOMAIN conf
    THEN Atoi(conf["max_parallel"])
    ELSE [val |-> 0, err |-> NilErr]

\* A pool built before max_parallel is read: always of the default size.
BackendPermitPoolUnread(conf) == NewPermitPool(0)

\* The permit pool NewAzureBackend gives the backend.
BackendPermitPool(conf) == NewPermitPool(ParseMaxParallel(conf).val)

(***************************************************************************)
(* The remote container's objects                                          *)
(***************************************************************************)
NoReq == [op |-> "none", key |-> <<>>, value |-> NoVal]
NoRes == [entry |-> NilEntry, list |-> NilList, err |-> NilErr, remote |-> NilErr]
\* azblob.Marker{}: Val is nil. A marker is done when Val points to "".
StartMarker == [isNil |-> TRUE, val |-> <<>>]
MarkerAt(v) == [isNil |-> FALSE, val |-> v]
\* Marker.NotDone
NotDone(m) == m.isNil \/ m.val # <<>>

NoBy == [by |-> 0, over |-> FALSE]
NoPut == [val |-> NoVal, over |-> FALSE]

\* The history of name k after the remote applied an upload of caller c ...
AppliedUpload(k, c) ==
    /\ lastApplied' = [lastApplied EXCEPT ![k] = [by |-> c, over |-> blobs[k] # NoVal]]
    /\ okPut' = [okPut EXCEPT ![k] = NoPut]
\* ... and after it applied a delete.
AppliedDelete(k) ==
    /\ lastApplied' = [lastApplied EXCEPT ![k] = NoBy]
    /\ okPut' = [okPut EXCEPT ![k] = NoPut]

\* The names in store that begin with prefix, ascending: what the service lists.
Matching(store, prefix) ==
    {n \in DOMAIN store : store[n] # NoVal /\ HasPrefix(n, prefix)}

RECURSIVE Ascending(_)
Ascending(S) ==
    IF S = {} THEN <<>>
    ELSE LET least == CHOOSE n \in S : \A o \in S \ {n} : StrLess(n, o)
         IN  <<least>> \o Ascending(S \ {least})

\* The names a page request with marker m may still return.
Remaining(store, prefix, m) ==
    Ascending({n \in Matching(store, prefix) : m.isNil \/ StrLess(m.val, n)})

\* ListBlobsFlatSegment: the successful answers to a page request. The service
\* returns the next names in order, at least one when any remain and at most
\* MaxResults, and a NextMarker: done, or (unless the page is empty) after the
\* page's last name.
PageAnswers(store, prefix, m) ==
    LET rest == Remaining(store, prefix, m)
        top == IF Len(rest) < MaxListResults THEN Len(rest) ELSE MaxListResults
    IN  IF rest = <<>>
        THEN {[items |-> <<>>, next |-> MarkerAt(<<>>)]}
        ELSE {[items |-> SubSeq(rest, 1, n), next |-> MarkerAt(rest[n])]
                  : n \in 1..top}
             \cup {[items |-> SubSeq(rest, 1, top), next |-> MarkerAt(<<>>)]
                       : x \in IF top = Len(rest) THEN {0} ELSE {}}

(***************************************************************************)
(* Put                                                                     *)
(***************************************************************************)
\* A size check that lets a value of exactly MaxBlobSize bytes through.
PutTooBigStrict(value) == value.len > MaxBlobSize

\* The size check of Put.
PutTooBig(value) == value.len >= MaxBlobSize

\* The error Put returns for the error of the upload: err itself.
PutResult(err) == err

PutStart(c, k, v) ==
    /\ pc[c] = "idle"
    /\ req' = [req EXCEPT ![c] = [op |-> "Put", key |-> k, value |-> v]]
    /\ IF PutTooBig(v)
       THEN /\ res' = [res EXCEPT ![c] = [NoRes EXCEPT !.err = SizeLimitError]]
            /\ pc' = [pc EXCEPT ![c] = "rejected"]
       ELSE /\ res' = [res EXCEPT ![c] = NoRes]
            /\ pc' = [pc EXCEPT ![c] = "acquire"]
    /\ UNCHANGED <<newvars, sinkvars>>
    /\ UNCHANGED <<blobs, backendConf, permitPool, marker, keys, body,
                   lastApplied, okPut, expect, issued>>

\* A Put that calls azblob.UploadBufferToBlockBlob again, under the slot it
\* holds, when the service refuses.
UploadRetrying(c) ==
    /\ pc[c] = "call"
    /\ req[c].op = "Put"
    /\ \E out \in {"ok", "busy"} :
          IF out = "ok"
          THEN /\ blobs' = [blobs EXCEPT ![req[c].key] = req[c].value]
               /\ AppliedUpload(req[c].key, c)
               /\ res' = [res EXCEPT ![c] = NoRes]
               /\ pc' = [pc EXCEPT ![c] = "ret"]
          ELSE UNCHANGED <<blobs, lastApplied, okPut, res, pc>>
    /\ issued' = [issued EXCEPT ![c] = @ + 1]
    /\ UNCHANGED <<newvars, sinkvars>>
    /\ UNCHANGED <<backendConf, permitPool, req, marker, keys, body, expect>>

\* azblob.UploadBufferToBlockBlob answers: the object is replaced ("ok"), the
\* service refuses ("busy"), the call fails before ("lost") or after ("late")
\* the service applied it.
Upload(c) ==
    /\ pc[c] = "call"
    /\ req[c].op = "Put"
    /\ \E out \in {"ok", "busy", "lost", "late"} :
          LET k == req[c].key
              err == CASE out = "ok" -> NilErr
                       [] out = "busy" -> StorageError("ServerBusy")
                       [] OTHER -> TransportError
          IN  /\ IF out \in {"ok", "late"}
                 THEN /\ blobs' = [blobs EXCEPT ![k] = req[c].value]
                      /\ AppliedUpload(k, c)
                 ELSE UNCHANGED <<blobs, lastApplied, okPut>>
              /\ res' = [res EXCEPT ![c] = [NoRes EXCEPT !.err = PutResult(err),
                                                         !.remote = err]]
    /\ pc' = [pc EXCEPT ![c] = "ret"]
    /\ issued' = [issued EXCEPT ![c] = @ + 1]
    /\ UNCHANGED <<newvars, sinkvars>>
    /\ UNCHANGED <<backendConf, permitPool, req, marker, keys, body, expect>>

(***************************************************************************)
(* Get                                                                     *)
(***************************************************************************)
GetStart(c, k) ==
    /\ pc[c] = "idle"
    /\ req' = [req EXCEPT ![c] = [op |-> "Get", key |-> k, value |-> NoVal]]
    /\ res' = [res EXCEPT ![c] = NoRes]
    /\ pc' = [pc EXCEPT ![c] = "acquire"]
    /\ UNCHANGED <<newvars, sinkvars>>
    /\ UNCHANGED <<blobs, backendConf, permitPool, marker, keys, body,
                   lastApplied, okPut, expect, issued>>

\* A Get that has no case for BlobNotFound: every storage error is wrapped.
GetFailureNoCase(key, err) ==
    IF IsStorageError(err)
    THEN [entry |-> NilEntry,
          err |-> Wrapf("failed to download blob %q: {{err}}", key, err)]
    ELSE [entry |-> NilEntry, err |-> err]

\* What Get returns when Download fails with err.
GetFailure(key, err) ==
    IF IsStorageError(err)
    THEN IF err.code = "BlobNotFound"
         THEN [entry |-> NilEntry, err |-> NilErr]
         ELSE [entry |-> NilEntry,
               err |-> Wrapf("failed to download blob %q: {{err}}", key, err)]
    ELSE [entry |-> NilEntry, err |-> err]

\* A Get that asks Download for offset 0, count 1: the first byte only.
GetEntryFirstByte(key, data, err) ==
    [entry |-> Entry(key, IF data.len > 1 THEN Val(1, data.tag) ELSE data),
     err |-> err]

\* What Get returns once the body was read: the entry, and ReadAll's error.
GetEntry(key, data, err) == [entry |-> Entry(key, data), err |-> err]

\* blobURL.Download answers: the body of an object that exists ("ok"),
\* BlobNotFound for one that does not, or a failure of the call.
Download(c) ==
    /\ pc[c] = "call"
    /\ req[c].op = "Get"
    /\ LET k == req[c].key
       IN  \E out \in (IF blobs[k] = NoVal THEN {"notfound"} ELSE {"ok"})
                        \cup {"busy", "lost"} :
              IF out = "ok"
              THEN /\ body' = [body EXCEPT ![c] = blobs[k]]
                   /\ pc' = [pc EXCEPT ![c] = "read"]
                   /\ res' = res
              ELSE LET err == CASE out = "notfound" -> StorageError("BlobNotFound")
                                [] out = "busy" -> StorageError("ServerBusy")
                                [] OTHER -> TransportError
                       r == GetFailure(k, err)
                   IN  /\ res' = [res EXCEPT ![c] = [NoRes EXCEPT !.entry = r.entry,
                                                                  !.err = r.err,
                                                                  !.remote = err]]
                       /\ pc' = [pc EXCEPT ![c] = "ret"]
                       /\ body' = body
    /\ expect' = [expect EXCEPT ![c] = okPut[req[c].key]]
    /\ issued' = [issued EXCEPT ![c] = @ + 1]
    /\ UNCHANGED <<newvars, sinkvars>>
    /\ UNCHANGED <<blobs, backendConf, permitPool, req, marker, keys,
                   lastApplied, okPut>>

\* ioutil.ReadAll(reader): the whole body, or the bytes read before the
\* stream failed together with the error.
ReadAll(c) ==
    /\ pc[c] = "read"
    /\ \E out \in {"ok", "cut"} :
          LET b == body[c]
              data == IF out = "ok" THEN b ELSE Val(0, "partial")
              err == IF out = "ok" THEN NilErr ELSE TransportError
              r == GetEntry(req[c].key, data, err)
          IN  res' = [res EXCEPT ![c] = [NoRes EXCEPT !.entry = r.entry,
                                                     !.err = r.err]]
    /\ body' = [body EXCEPT ![c] = NoVal]
    /\ pc' = [pc EXCEPT ![c] = "ret"]
    /\ UNCHANGED <<newvars, sinkvars>>
    /\ UNCHANGED <<blobs, backendConf, permitPool, req, marker, keys,
                   lastApplied, okPut, expect, issued>>

(***************************************************************************)
(* Delete                                                                  *)
(***************************************************************************)
DeleteStart(c, k) ==
    /\ pc[c] = "idle"
    /\ req' = [req EXCEPT ![c] = [op |-> "Delete", key |-> k, value |-> NoVal]]
    /\ res' = [res EXCEPT ![c] = NoRes]
    /\ pc' = [pc EXCEPT ![c] = "acquire"]
    /\ UNCHANGED <<newvars, sinkvars>>
    /\ UNCHANGED <<blobs, backendConf, permitPool, marker, keys, body,
                   lastApplied, okPut, expect, issued>>

\* A Delete that has no case for BlobNotFound: every storage error is wrapped.
DeleteResultNoCase(key, err) ==
    IF err # NilErr /\ IsStorageError(err)
    THEN Wrapf("failed to delete blob %q: {{err}}", key, err)
    ELSE err

\* The error Delete returns for the error of blobURL.Delete.
DeleteResult(key, err) ==
    IF err # NilErr /\ IsStorageError(err)
    THEN IF err.code = "BlobNotFound"
         THEN NilErr
         ELSE Wrapf("failed to delete blob %q: {{err}}", key, err)
    ELSE err

\* blobURL.Delete answers: the object (with its snapshots) is deleted ("ok"),
\* BlobNotFound for one that does not exist, the service refuses ("busy"), the
\* call fails before ("lost") or after ("late") the service applied it.
BlobDelete(c) ==
    /\ pc[c] = "call"
    /\ req[c].op = "Delete"
    /\ LET k == req[c].key
       IN  \E out \in (IF blobs[k] = NoVal THEN {"notfound"} ELSE {"ok", "late"})
                        \cup {"busy", "lost"} :
              LET err == CASE out = "ok" -> NilErr
                           [] out = "notfound" -> StorageError("BlobNotFound")
                           [] out = "busy" -> StorageError("ServerBusy")
                           [] OTHER -> TransportError
              IN  /\ IF out \in {"ok", "late"}
                     THEN /\ blobs' = [blobs EXCEPT ![k] = NoVal]
                          /\ AppliedDelete(k)
                     ELSE UNCHANGED <<blobs, lastApplied, okPut>>
                  /\ res' = [res EXCEPT ![c] = [NoRes EXCEPT !.err = DeleteResult(k, err),
                                                             !.remote = err]]
    /\ pc' = [pc EXCEPT ![c] = "ret"]
    /\ issued' = [issued EXCEPT ![c] = @ + 1]
    /\ UNCHANGED <<newvars, sinkvars>>
    /\ UNCHANGED <<backendConf, permitPool, req, marker, keys, body, expect>>

(***************************************************************************)
(* List                                                                    *)
(***************************************************************************)
ListStart(c, prefix) ==
    /\ pc[c] = "idle"
    /\ req' = [req EXCEPT ![c] = [op |-> "List", key |-> prefix, value |-> NoVal]]
    /\ res' = [res EXCEPT ![c] = NoRes]
    /\ pc' = [pc EXCEPT ![c] = "acquire"]
    /\ UNCHANGED <<newvars, sinkvars>>
    /\ UNCHANGED <<blobs, backendConf, permitPool, marker, keys, body,
                   lastApplied, okPut, expect, issued>>

\* A loop body that cuts the subdirectory before its delimiter (key[:i]).
AddKeyCutShort(ks, name, prefix) ==
    LET key == TrimPrefix(name, prefix)
        i == IndexSlash(key)
    IN  IF i = -1
        THEN Append(ks, key)
        ELSE AppendIfMissing(ks, SubSeq(key, 1, i))

\* A loop body that appends the subdirectory of every item under it.
AddKeyNoDedup(ks, name, prefix) ==
    LET key == TrimPrefix(name, prefix)
        i == IndexSlash(key)
    IN  Append(ks, IF i = -1 THEN key ELSE SubSeq(key, 1, i + 1))

\* The loop body of List for one blob item: a file key, or its subdirectory
\* unless that is among the keys already.
AddKey(ks, name, prefix) ==
    LET key == TrimPrefix(name, prefix)
        i == IndexSlash(key)
    IN  IF i = -1
        THEN Append(ks, key)
        ELSE AppendIfMissing(ks, SubSeq(key, 1, i + 1))

\* The loop over listBlob.Segment.BlobItems.
RECURSIVE AddPage(_, _, _)
AddPage(ks, items, prefix) ==
    IF items = <<>> THEN ks
    ELSE AddPage(AddKey(ks, Head(items), prefix), Tail(items), prefix)

\* What List returns after the last page.
ListResult(ks) == List(SortStrings(ks))

\* A List that returns the keys of the pages it was answered along with the
\* error of the page request that failed.
ListFailurePartial(ks, err) == [list |-> List(SortStrings(ks)), err |-> err]

\* What List returns when a page request fails.
ListFailure(ks, err) == [list |-> NilList, err |-> err]

\* One turn of the loop of List: a page request, which fails or answers with a
\* page; the page's items are added, and the loop ends when the next marker is
\* done.
ListSegment(c) ==
    /\ pc[c] = "call"
    /\ req[c].op = "List"
    /\ \/ \E err \in {StorageError("ServerBusy"), TransportError} :
             LET r == ListFailure(keys[c], err)
             IN  /\ res' = [res EXCEPT ![c] = [NoRes EXCEPT !.list = r.list,
                                                            !.err = r.err,
                                                            !.remote = err]]
                 /\ pc' = [pc EXCEPT ![c] = "ret"]
                 /\ UNCHANGED <<keys, marker>>
       \/ \E a \in PageAnswers(blobs, req[c].key, marker[c]) :
             LET ks == AddPage(keys[c], a.items, req[c].key)
             IN  IF NotDone(a.next)
                 THEN /\ keys' = [keys EXCEPT ![c] = ks]
                      /\ marker' = [marker EXCEPT ![c] = a.next]
                      /\ UNCHANGED <<pc, res>>
                 ELSE /\ res' = [res EXCEPT ![c] = [NoRes EXCEPT !.list = ListResult(ks)]]
                      /\ pc' = [pc EXCEPT ![c] = "ret"]
                      /\ keys' = [keys EXCEPT ![c] = ks]
                      /\ marker' = [marker EXCEPT ![c] = a.next]
    /\ issued' = [issued EXCEPT ![c] = @ + 1]
    /\ UNCHANGED <<newvars, sinkvars>>
    /\ UNCHANGED <<blobs, backendConf, permitPool, req, body,
                   lastApplied, okPut, expect>>

(***************************************************************************)
(* The admission slot of every operation                                   *)
(***************************************************************************)
\* An operation that acquires a slot for itself and a second one for its
\* remote call, while its Return releases one.
AcquireSecond(c) ==
    /\ pc[c] = "acquire"
    /\ PoolHasFree(permitPool)
    /\ PoolHasFree(PoolAcquire(permitPool))
    /\ permitPool' = PoolAcquire(PoolAcquire(permitPool))
    /\ pc' = [pc EXCEPT ![c] = "call"]
    /\ UNCHANGED <<newvars, sinkvars>>
    /\ UNCHANGED <<blobs, backendConf, req, res, marker, keys, body,
                   lastApplied, okPut, expect, issued>>

\* a.permitPool.Acquire(): blocks until a slot is free.
Acquire(c) ==
    /\ pc[c] = "acquire"
    /\ PoolHasFree(permitPool)
    /\ permitPool' = PoolAcquire(permitPool)
    /\ pc' = [pc EXCEPT ![c] = "call"]
    /\ UNCHANGED <<newvars, sinkvars>>
    /\ UNCHANGED <<blobs, backendConf, req, res, marker, keys, body,
                   lastApplied, okPut, expect, issued>>

\* A Release that is not deferred but placed before the final return only:
\* the early returns of the error paths skip it.
ReleaseOnSuccess(pool, r) == IF r.err = NilErr THEN PoolRelease(pool) ELSE pool

\* The deferred a.permitPool.Release() of an operation that returns r.
DeferredRelease(pool, r) == PoolRelease(pool)

\* The operation returns to its caller: the deferred Release runs if the
\* operation came as far as its defer statement, and the locals of List (its
\* marker and keys) are gone. A Put that returns nil and
\* whose upload is still the last change applied to its key enters the history.
Return(c) ==
    /\ pc[c] \in {"ret", "rejected"}
    /\ permitPool' = IF pc[c] = "ret"
                     THEN DeferredRelease(permitPool, res[c])
                     ELSE permitPool
    /\ pc' = [pc EXCEPT ![c] = "idle"]
    /\ req' = [req EXCEPT ![c] = NoReq]
    /\ res' = [res EXCEPT ![c] = NoRes]
    /\ expect' = [expect EXCEPT ![c] = NoPut]
    /\ okPut' = IF /\ req[c].op = "Put"
                   /\ res[c].err = NilErr
                   /\ lastApplied[req[c].key].by = c
                THEN [okPut EXCEPT ![req[c].key] =
                         [val |-> req[c].value,
                          over |-> lastApplied[req[c].key].over]]
                ELSE okPut
    /\ issued' = [issued EXCEPT ![c] = 0]
    /\ marker' = [marker EXCEPT ![c] = StartMarker]
    /\ keys' = [keys EXCEPT ![c] = <<>>]
    /\ UNCHANGED <<newvars, sinkvars>>
    /\ UNCHANGED <<blobs, backendConf, body, lastApplied>>

(***************************************************************************)
(* NewAzureBackend                                                         *)
(***************************************************************************)
\* Two constructions may run at once against the same container.
Ctors == {1, 2}

\* A value taken from the conf map, else from the environment variable.
ConfThenEnv(env, envKey, conf, confKey) ==
    IF MapGet(conf, confKey) = "" THEN MapGet(env, envKey) ELSE MapGet(conf, confKey)

\* A value taken from the environment variable, else from the conf map.
EnvOrConf(env, envKey, conf, confKey) ==
    IF MapGet(env, envKey) = "" THEN MapGet(conf, confKey) ELSE MapGet(env, envKey)

\* The settings NewAzureBackend resolves, and the error of the first required
\* one that is missing.
ResolveConfig(conf, env) ==
    LET name == EnvOrConf(env, "AZURE_BLOB_CONTAINER", conf, "container")
        accountName == EnvOrConf(env, "AZURE_ACCOUNT_NAME", conf, "accountName")
        accountKey == EnvOrConf(env, "AZURE_ACCOUNT_KEY", conf, "accountKey")
        envName == EnvOrConf(env, "AZURE_ENVIRONMENT", conf, "environment")
        envURL == EnvOrConf(env, "AZURE_ARM_ENDPOINT", conf, "arm_endpoint")
    IN  [name |-> name,
         accountName |-> accountName,
         accountKey |-> accountKey,
         environmentName |-> IF envName = "" THEN "AzurePublicCloud" ELSE envName,
         environmentURL |-> envURL,
         err |-> IF name = "" THEN MkErr("errorf", "", "'container' must be set", <<>>, "")
                 ELSE IF accountName = ""
                 THEN MkErr("errorf", "", "'accountName' must be set", <<>>, "")
                 ELSE IF accountKey = ""
                 THEN MkErr("errorf", "", "'accountKey' must be set", <<>>, "")
                 ELSE NilErr]

\* azure.EnvironmentFromName: the names of the known clouds, whatever the case.
KnownEnvironments ==
    {"AzurePublicCloud", "AZUREPUBLICCLOUD", "AzureChinaCloud", "AZURECHINACLOUD",
     "AzureGermanCloud", "AZUREGERMANCLOUD",
     "AzureUSGovernmentCloud", "AZUREUSGOVERNMENTCLOUD"}
EnvironmentFromName(name) ==
    IF name \in KnownEnvironments
    THEN NilErr
    ELSE MkErr("environment", "", "no cloud environment matching the name", <<>>, "")

\* azblob.NewSharedKeyCredential: the account key must decode as base64.
MalformedKeys == {"not base64!"}
NewSharedKeyCredential(accountName, accountKey) ==
    IF accountKey \in MalformedKeys
    THEN MkErr("base64", "", "illegal base64 data", <<>>, "")
    ELSE NilErr

\* A Create that opens the container to public reads.
CreateArgsPublic == [metadata |-> <<>>, access |-> "container"]

\* The arguments of containerURL.Create.
CreateArgs == [metadata |-> <<>>, access |-> "none"]

NoSettings == [name |-> "", accountName |-> "", accountKey |-> "",
               environmentName |-> "", environmentURL |-> "", err |-> NilErr]
NoContainer == [exists |-> FALSE, access |-> "", metadata |-> <<>>]
NoCalls == [arm |-> 0, props |-> 0, create |-> 0]
NoRemote == [props |-> NilErr, create |-> NilErr]
NoBackend == [isNil |-> TRUE, pool |-> NewPermitPool(0)]
NoResult == [backend |-> NoBackend, err |-> NilErr]
Failed(err) == [backend |-> NoBackend, err |-> err]

\* Lines 46 to 113: the settings, the environment descriptor (looked up by name,
\* or fetched from the ARM endpoint, a remote call that may fail), the
\* credential. The client URL of these names always parses.
Resolve(n) ==
    /\ npc[n] = "start"
    /\ LET r == ResolveConfig(nconf[n], nenv[n])
           cred == NewSharedKeyCredential(r.accountName, r.accountKey)
       IN  /\ nsettings' = [nsettings EXCEPT ![n] = r]
           /\ IF r.err # NilErr
              THEN /\ nres' = [nres EXCEPT ![n] = Failed(r.err)]
                   /\ npc' = [npc EXCEPT ![n] = "done"]
                   /\ ncalls' = ncalls
              ELSE \E armOk \in IF r.environmentURL # "" THEN BOOLEAN ELSE {TRUE} :
                     LET lookup ==
                           IF r.environmentURL # ""
                           THEN IF armOk THEN NilErr
                                ELSE MkErr("environment", "",
                                           "retrieving metadata failed", <<>>, "")
                           ELSE EnvironmentFromName(r.environmentName)
                         ctx == IF r.environmentURL # ""
                                THEN "failed to look up Azure environment descriptor for URL %q: {{err}}"
                                ELSE "failed to look up Azure environment descriptor for name %q: {{err}}"
                     IN  /\ ncalls' = [ncalls EXCEPT ![n].arm =
                                          IF r.environmentURL # "" THEN 1 ELSE 0]
                         /\ IF lookup # NilErr
                            THEN /\ nres' = [nres EXCEPT ![n] = Failed(Wrapf(ctx, <<>>, lookup))]
                                 /\ npc' = [npc EXCEPT ![n] = "done"]
                            ELSE IF cred # NilErr
                            THEN /\ nres' = [nres EXCEPT ![n] =
                                      Failed(Wrapf("failed to create Azure client: {{err}}", <<>>, cred))]
                                 /\ npc' = [npc EXCEPT ![n] = "done"]
                            ELSE /\ nres' = nres
                                 /\ npc' = [npc EXCEPT ![n] = "probe"]
    /\ UNCHANGED <<container, nconf, nenv, nremote>>
    /\ UNCHANGED <<opvars, sinkvars>>

\* Where NewAzureBackend goes after GetProperties answered err: on to the
\* max_parallel setting, to the creation of the container, or out with an
\* error.
AfterProbe(err) ==
    IF err # NilErr
    THEN IF IsStorageError(err)
         THEN IF err.code = "ContainerNotFound"
              THEN [to |-> "create", err |-> NilErr]
              ELSE [to |-> "done",
                    err |-> Wrapf("failed to get properties for container %q: {{err}}", <<>>, err)]
         ELSE [to |-> "maxpar", err |-> NilErr]
    ELSE [to |-> "maxpar", err |-> NilErr]

\* containerURL.GetProperties, within 5 seconds: the properties of a container
\* that exists ("ok"), ContainerNotFound for one that does not, a refusal
\* ("busy"), or a failed or expired call ("lost").
Probe(n) ==
    /\ npc[n] = "probe"
    /\ \E out \in (IF container.exists THEN {"ok"} ELSE {"notfound"})
                    \cup {"busy", "lost"} :
          LET err == CASE out = "ok" -> NilErr
                       [] out = "notfound" -> StorageError("ContainerNotFound")
                       [] out = "busy" -> StorageError("ServerBusy")
                       [] OTHER -> TransportError
              next == AfterProbe(err)
          IN  /\ npc' = [npc EXCEPT ![n] = next.to]
              /\ nres' = IF next.to = "done"
                          THEN [nres EXCEPT ![n] = Failed(next.err)]
                          ELSE nres
              /\ nremote' = [nremote EXCEPT ![n].props = err]
    /\ ncalls' = [ncalls EXCEPT ![n].props = @ + 1]
    /\ UNCHANGED <<container, nconf, nenv, nsettings>>
    /\ UNCHANGED <<opvars, sinkvars>>

\* Where NewAzureBackend goes after Create answered err.
AfterCreate(err) ==
    IF err # NilErr
    THEN [to |-> "done", err |-> Wrapf("failed to create %q container: {{err}}", <<>>, err)]
    ELSE [to |-> "maxpar", err |-> NilErr]

\* containerURL.Create: the container is created with the metadata and access
\* asked for ("ok"), ContainerAlreadyExists when it exists, a refusal ("busy"),
\* a call failed before ("lost") or after ("late") the service applied it.
Create(n) ==
    /\ npc[n] = "create"
    /\ \E out \in (IF container.exists THEN {"exists"} ELSE {"ok", "late"})
                    \cup {"busy", "lost"} :
          LET err == CASE out = "ok" -> NilErr
                       [] out = "exists" -> StorageError("ContainerAlreadyExists")
                       [] out = "busy" -> StorageError("ServerBusy")
                       [] OTHER -> TransportError
              next == AfterCreate(err)
          IN  /\ container' = IF out \in {"ok", "late"}
                              THEN [exists |-> TRUE, access |-> CreateArgs.access,
                                    metadata |-> CreateArgs.metadata]
                              ELSE container
              /\ npc' = [npc EXCEPT ![n] = next.to]
              /\ nres' = IF next.to = "done"
                          THEN [nres EXCEPT ![n] = Failed(next.err)]
                          ELSE nres
              /\ nremote' = [nremote EXCEPT ![n].create = err]
    /\ ncalls' = [ncalls EXCEPT ![n].create = @ + 1]
    /\ UNCHANGED <<nconf, nenv, nsettings>>
    /\ UNCHANGED <<opvars, sinkvars>>

\* Lines 135 to 153: the max_parallel setting, then the backend.
Finish(n) ==
    /\ npc[n] = "maxpar"
    /\ LET parsed == ParseMaxParallel(nconf[n])
       IN  nres' = [nres EXCEPT ![n] =
                      IF parsed.err # NilErr
                      THEN Failed(Wrapf("failed parsing max_parallel parameter: {{err}}",
                                        <<>>, parsed.err))
                      ELSE [backend |-> [isNil |-> FALSE,
                                         pool |-> BackendPermitPool(nconf[n])],
                            err |-> NilErr]]
    /\ npc' = [npc EXCEPT ![n] = "done"]
    /\ UNCHANGED <<container, nconf, nenv, nsettings, ncalls, nremote>>
    /\ UNCHANGED <<opvars, sinkvars>>

(***************************************************************************)
(* ClusterMetricSink                                                       *)
(***************************************************************************)
\* The goroutines that call SetDefaultClusterName on the one sink.
Setters == {1, 2}

\* The names a sink is constructed with and the names later calls propose.
ConfiguredNames == {"", "configured"}
DefaultNames == {"vault-cluster-a", "vault-cluster-b", "vault-cluster-c"}

\* NewClusterMetricSink(clusterName, sink): the name is stored as given.
NewClusterMetricSink(clusterName) == clusterName

\* BlackholeSink(): the empty name is stored.
BlackholeSink == ""

\* No SetDefaultClusterName call is running on a sink that holds name.
SinkIdle(name) ==
    /\ ClusterName = name
    /\ spc = [s \in Setters |-> "idle"]
    /\ sarg = [s \in Setters |-> ""]
    /\ sloaded = [s \in Setters |-> ""]

\* SetDefaultClusterName(clusterName), first half: m.ClusterName.Load().
LoadClusterName(s, clusterName) ==
    /\ spc[s] = "idle"
    /\ sarg' = [sarg EXCEPT ![s] = clusterName]
    /\ sloaded' = [sloaded EXCEPT ![s] = ClusterName]
    /\ spc' = [spc EXCEPT ![s] = "loaded"]
    /\ UNCHANGED ClusterName
    /\ UNCHANGED <<opvars, newvars>>

\* SetDefaultClusterName, second half: the comparison of what was loaded with
\* "", then m.ClusterName.Store(clusterName), and the return.
StoreClusterName(s) ==
    /\ spc[s] = "loaded"
    /\ ClusterName' = IF sloaded[s] = "" THEN sarg[s] ELSE ClusterName
    /\ spc' = [spc EXCEPT ![s] = "idle"]
    /\ sarg' = [sarg EXCEPT ![s] = ""]
    /\ sloaded' = [sloaded EXCEPT ![s] = ""]
    /\ UNCHANGED <<opvars, newvars>>

(***************************************************************************)
(* Specifications                                                          *)
(***************************************************************************)
\* A conf map with every required setting, and the same with max_parallel.
ValidConf == [container |-> "vault", accountName |-> "acct", accountKey |-> "a2V5"]
WithMaxParallel(conf, s) ==
    [k \in DOMAIN conf \cup {"max_parallel"} |->
        IF k = "max_parallel" THEN s ELSE conf[k]]
\* An environment that sets none of the AZURE_ variables.
PlainEnv == [HOME |-> "/root"]

\* The conf maps of the backends the callers use: max_parallel absent, 1, 2.
BackendConfs ==
    {ValidConf, WithMaxParallel(ValidConf, <<"1">>), WithMaxParallel(ValidConf, <<"2">>)}
\* The conf maps of the constructions: also max_parallel = "abc".
NewConfs == BackendConfs \cup {WithMaxParallel(ValidConf, <<"a", "b", "c">>)}

\* A container somebody else created, with its own access level and metadata.
ForeignContainer == [exists |-> TRUE, access |-> "blob", metadata |-> <<"owner">>]

CallersIdle ==
    /\ pc = [c \in Callers |-> "idle"]
    /\ req = [c \in Callers |-> NoReq]
    /\ res = [c \in Callers |-> NoRes]
    /\ marker = [c \in Callers |-> StartMarker]
    /\ keys = [c \in Callers |-> <<>>]
    /\ body = [c \in Callers |-> NoVal]
    /\ expect = [c \in Callers |-> NoPut]
    /\ issued = [c \in Callers |-> 0]
    /\ lastApplied = [n \in Names |-> NoBy]
    /\ okPut = [n \in Names |-> NoPut]

\* No construction is running: the backend exists.
Constructed ==
    /\ container = [exists |-> TRUE, access |-> CreateArgs.access,
                    metadata |-> CreateArgs.metadata]
    /\ npc = [n \in Ctors |-> "done"]
    /\ nconf = [n \in Ctors |-> backendConf]
    /\ nenv = [n \in Ctors |-> PlainEnv]
    /\ nsettings = [n \in Ctors |-> ResolveConfig(backendConf, PlainEnv)]
    /\ ncalls = [n \in Ctors |-> NoCalls]
    /\ nremote = [n \in Ctors |-> NoRemote]
    /\ nres = [n \in Ctors |-> [backend |-> [isNil |-> FALSE,
                                             pool |-> BackendPermitPool(backendConf)],
                                err |-> NilErr]]

\* A backend constructed with conf, its callers idle, its container empty.
InitBackend(conf) ==
    /\ backendConf = conf
    /\ permitPool = BackendPermitPool(backendConf)
    /\ blobs = [n \in Names |-> NoVal]
    /\ CallersIdle
    /\ SinkIdle(BlackholeSink)
    /\ Constructed

Init == InitBackend(ValidConf)

InitAdmit == \E conf \in BackendConfs : InitBackend(conf)

\* Put, Get and Delete of the same keys by two callers.
Next ==
    \E c \in Writers :
        \/ \E k \in OpKeys, v \in PutValues : PutStart(c, k, v)
        \/ \E k \in OpKeys : GetStart(c, k)
        \/ \E k \in OpKeys : DeleteStart(c, k)
        \/ Acquire(c)
        \/ Upload(c)
        \/ Download(c)
        \/ ReadAll(c)
        \/ BlobDelete(c)
        \/ Return(c)

Spec == Init /\ [][Next]_vars

\* All four operations by every caller, on one key: the admission slots.
NextAdmit ==
    \E c \in Callers :
        \/ \E v \in AdmitValues : PutStart(c, kBC, v)
        \/ GetStart(c, kBC)
        \/ DeleteStart(c, kBC)
        \/ ListStart(c, <<>>)
        \/ Acquire(c)
        \/ Upload(c)
        \/ Download(c)
        \/ ReadAll(c)
        \/ BlobDelete(c)
        \/ ListSegment(c)
        \/ Return(c)

SpecAdmit == InitAdmit /\ [][NextAdmit]_vars

\* The step of caller c's operation once it holds its slot, or is rejected:
\* the answer of its remote call, the reading of the body, the return.
Proceed(c) ==
    \/ Upload(c)
    \/ Download(c)
    \/ ReadAll(c)
    \/ BlobDelete(c)
    \/ ListSegment(c)
    \/ Return(c)

\* The same callers under fair scheduling. Every remote call eventually
\* answers and every goroutine that can run eventually runs: the steps of an
\* operation under way are weakly fair. A slot is free only now and then
\* while others take it, and the semaphore's channel serves its blocked
\* senders in the order they arrived: Acquire is strongly fair. No caller has
\* to start an operation.
FairAdmit ==
    \A c \in Callers : SF_vars(Acquire(c)) /\ WF_vars(Proceed(c))

\* The backends of bounded capacity: max_parallel 1 and 2.
InitLive ==
    \E conf \in {WithMaxParallel(ValidConf, <<"1">>), WithMaxParallel(ValidConf, <<"2">>)} :
        InitBackend(conf)

SpecLive == InitLive /\ [][NextAdmit]_vars /\ FairAdmit

\* List by caller 1 while caller 2 Puts and Deletes between its page requests.
NextPages ==
    \/ \E prefix \in OpPrefixes : ListStart(1, prefix)
    \/ ListSegment(1)
    \/ \E k \in PageKeys : PutStart(2, k, Val(1, "x"))
    \/ \E k \in PageKeys : DeleteStart(2, k)
    \/ Upload(2)
    \/ BlobDelete(2)
    \/ \E c \in Writers : Acquire(c) \/ Return(c)

SpecPages == Init /\ [][NextPages]_vars

\* List, by one caller, over every container that holds some of Names.
InitList ==
    /\ backendConf = ValidConf
    /\ permitPool = BackendPermitPool(backendConf)
    /\ \E S \in SUBSET Names :
          blobs = [n \in Names |-> IF n \in S THEN Val(1, "x") ELSE NoVal]
    /\ CallersIdle
    /\ SinkIdle(BlackholeSink)
    /\ Constructed

NextList ==
    \/ \E prefix \in AllPrefixes : ListStart(1, prefix)
    \/ Acquire(1)
    \/ ListSegment(1)
    \/ Return(1)

SpecList == InitList /\ [][NextList]_vars

\* Constructions, with the callers waiting for their backend.
InitNew ==
    /\ backendConf = ValidConf
    /\ permitPool = BackendPermitPool(backendConf)
    /\ blobs = [n \in Names |-> NoVal]
    /\ CallersIdle
    /\ SinkIdle(BlackholeSink)
    /\ container \in {NoContainer, ForeignContainer}
    /\ npc = [n \in Ctors |-> "start"]
    /\ nconf \in [Ctors -> NewConfs]
    /\ nenv = [n \in Ctors |-> PlainEnv]
    /\ nsettings = [n \in Ctors |-> NoSettings]
    /\ ncalls = [n \in Ctors |-> NoCalls]
    /\ nremote = [n \in Ctors |-> NoRemote]
    /\ nres = [n \in Ctors |-> NoResult]

NextNew ==
    \E n \in Ctors :
        \/ Resolve(n)
        \/ Probe(n)
        \/ Create(n)
        \/ Finish(n)

SpecNew == InitNew /\ [][NextNew]_vars

\* One construction, over every combination of the five settings given in the
\* conf map, in the environment, in both or in neither. A key that is not in
\* the map and a variable that is not set read as "", as one that is empty.
ConfChoices ==
    [container : {"", "vault"},
     accountName : {"", "acct"},
     accountKey : {"", "a2V5"},
     environment : {"", "AzureChinaCloud", "NoSuchCloud"},
     arm_endpoint : {"", "https://arm.conf.example"}]
EnvChoices ==
    [AZURE_BLOB_CONTAINER : {"", "env-vault"},
     AZURE_ACCOUNT_NAME : {"", "env-acct"},
     AZURE_ACCOUNT_KEY : {"", "ZW52"},
     AZURE_ENVIRONMENT : {"", "AzureGermanCloud"},
     AZURE_ARM_ENDPOINT : {"", "https://arm.env.example"}]

InitConf ==
    /\ backendConf = ValidConf
    /\ permitPool = BackendPermitPool(backendConf)
    /\ blobs = [n \in Names |-> NoVal]
    /\ CallersIdle
    /\ SinkIdle(BlackholeSink)
    /\ container \in {NoContainer, ForeignContainer}
    /\ npc = [n \in Ctors |-> "start"]
    /\ \E conf \in ConfChoices, env \in EnvChoices :
          /\ nconf = [n \in Ctors |-> conf]
          /\ nenv = [n \in Ctors |-> env]
    /\ nsettings = [n \in Ctors |-> NoSettings]
    /\ ncalls = [n \in Ctors |-> NoCalls]
    /\ nremote = [n \in Ctors |-> NoRemote]
    /\ nres = [n \in Ctors |-> NoResult]

NextConf == Resolve(1) \/ Probe(1) \/ Create(1) \/ Finish(1)

SpecConf == InitConf /\ [][NextConf]_vars

\* Concurrent SetDefaultClusterName calls on one sink, constructed with a name
\* or without one.
InitSink ==
    /\ backendConf = ValidConf
    /\ permitPool = BackendPermitPool(backendConf)
    /\ blobs = [n \in Names |-> NoVal]
    /\ CallersIdle
    /\ Constructed
    /\ \E name \in ConfiguredNames : SinkIdle(NewClusterMetricSink(name))

NextSink ==
    \E s \in Setters :
        \/ \E name \in DefaultNames : LoadClusterName(s, name)
        \/ StoreClusterName(s)

SpecSink == InitSink /\ [][NextSink]_vars

(***************************************************************************)
(* Properties                                                              *)
(***************************************************************************)
Returning(c, op) == pc[c] = "ret" /\ req[c].op = op

\* C1: a Get that returns no error, answered while the last change applied to
\* its key is a Put(k, v) that returned no error, returns the entry with key k
\* and value v; so after two such Puts, the value of the later one.
RoundTrip ==
    \A c \in Callers :
        (/\ Returning(c, "Get")
         /\ res[c].err = NilErr
         /\ expect[c].val # NoVal)
        => /\ ~res[c].entry.isNil
           /\ res[c].entry.Key = req[c].key
           /\ res[c].entry.Value = expect[c].val

\* A Get returns the largest value that fits, put over an earlier value.
RoundTripSeen ==
    \E c \in Callers :
        /\ Returning(c, "Get")
        /\ res[c].err = NilErr
        /\ expect[c] = [val |-> Val(MaxBlobSize - 1, "y"), over |-> TRUE]
        /\ res[c].entry = Entry(kBD, Val(MaxBlobSize - 1, "y"))

\* C2: a Put of a value of MaxBlobSize bytes or more returns the size-limit
\* error without acquiring a slot, without a remote call and without changing
\* the objects; a Put of a shorter value goes on to acquire.
BigPutRejected ==
    [][\A c \in Callers :
          /\ (pc[c] = "idle" /\ pc'[c] # "idle" /\ req'[c].op = "Put")
             => IF req'[c].value.len >= MaxBlobSize
                THEN /\ pc'[c] = "rejected"
                     /\ res'[c].err = SizeLimitError
                     /\ res'[c].remote = NilErr
                     /\ UNCHANGED <<blobs, permitPool>>
                ELSE pc'[c] = "acquire"
          /\ (pc[c] = "rejected" /\ pc'[c] # "rejected")
             => /\ pc'[c] = "idle"
                /\ UNCHANGED <<blobs, permitPool>>]_vars

\* A Put of exactly MaxBlobSize bytes is being rejected; nothing is stored and
\* no slot is taken.
BigPutSeen ==
    \E c \in Callers :
        /\ pc[c] = "rejected"
        /\ req[c].value.len = MaxBlobSize
        /\ res[c].err = SizeLimitError
        /\ permitPool.used = 0
        /\ \A n \in Names : blobs[n] = NoVal

\* C3: a Get whose download the remote store answers with BlobNotFound returns
\* no entry and no error.
GetAbsent ==
    \A c \in Callers :
        (Returning(c, "Get") /\ res[c].remote = StorageError("BlobNotFound"))
        => /\ res[c].entry = NilEntry
           /\ res[c].err = NilErr

\* A Get of a key that was put and deleted again returns (nil, nil).
GetAbsentSeen ==
    \E c \in Callers :
        /\ Returning(c, "Get")
        /\ res[c].remote = StorageError("BlobNotFound")
        /\ res[c].entry = NilEntry
        /\ res[c].err = NilErr
        /\ blobs[req[c].key] = NoVal
        /\ \E d \in Callers \ {c} :
              /\ Returning(d, "Delete")
              /\ req[d].key = req[c].key
              /\ res[d].remote = NilErr

\* C4: a Delete that the remote store answers by deleting the object or with
\* BlobNotFound returns nil, and leaves the key absent and every other object
\* as it was; answered with BlobNotFound (a second Delete in succession), it
\* leaves all objects as they were.
DeleteIdempotent ==
    [][\A c \in Callers :
          (/\ pc[c] = "call"
           /\ req[c].op = "Delete"
           /\ pc'[c] = "ret"
           /\ res'[c].remote \in {NilErr, StorageError("BlobNotFound")})
          => /\ res'[c].err = NilErr
             /\ blobs'[req[c].key] = NoVal
             /\ \A n \in Names \ {req[c].key} : blobs'[n] = blobs[n]
             /\ res'[c].remote = StorageError("BlobNotFound") => blobs' = blobs]_vars

\* Two Deletes of the same key are returning success: the one that deleted the
\* object and the one that found it gone.
DeleteTwiceSeen ==
    \E c, d \in Callers :
        /\ Returning(c, "Delete") /\ Returning(d, "Delete")
        /\ req[c].key = req[d].key
        /\ res[c].remote = NilErr
        /\ res[d].remote = StorageError("BlobNotFound")
        /\ res[c].err = NilErr /\ res[d].err = NilErr
        /\ blobs[req[c].key] = NoVal

\* The names the container holds.
Stored == {n \in Names : blobs[n] # NoVal}
\* The remainder of a name that begins with prefix.
Remainder(n, prefix) == SubSeq(n, Len(prefix) + 1, Len(n))
SlashAt(r) == {i \in 1..Len(r) : r[i] = Slash}
\* The first path segment of r with its delimiter.
FirstSegment(r) == SubSeq(r, 1, CHOOSE i \in SlashAt(r) : \A j \in SlashAt(r) : i <= j)
\* One level under prefix: the remainders without a delimiter, and the first
\* segments of the others.
OneLevel(prefix) ==
    LET rs == {Remainder(n, prefix) : n \in {m \in Stored : HasPrefix(m, prefix)}}
    IN  {r \in rs : SlashAt(r) = {}} \cup {FirstSegment(r) : r \in {q \in rs : SlashAt(q) # {}}}
Items(l) == {l[i] : i \in 1..Len(l)}
DirPrefix(prefix) == prefix = <<>> \/ prefix[Len(prefix)] = Slash

\* C5: a List of a prefix that is empty or ends with the delimiter, over a
\* container nobody changes, returns, however the service pages the objects,
\* exactly the one-level keys under the prefix, each once; over a, b/c, b/d,
\* e/f/g that is [a, b/, e/] for "" and [c, d] for "b/".
ListOneLevel ==
    \A c \in Callers :
        (/\ Returning(c, "List")
         /\ res[c].err = NilErr
         /\ DirPrefix(req[c].key))
        => /\ ~res[c].list.isNil
           /\ Items(res[c].list.items) = OneLevel(req[c].key)
           /\ Len(res[c].list.items) = Cardinality(OneLevel(req[c].key))
           /\ (Stored = {kA, kBC, kBD, kEFG} /\ req[c].key = <<>>)
              => res[c].list.items = <<kA, <<"b", "/">>, <<"e", "/">> >>
           /\ (Stored = {kA, kBC, kBD, kEFG} /\ req[c].key = <<"b", "/">>)
              => res[c].list.items = << <<"c">>, <<"d">> >>

\* List("") over a, b/c, b/d, e/f/g returns [a, b/, e/].
ListOneLevelSeen ==
    /\ Stored = {kA, kBC, kBD, kEFG}
    /\ Returning(1, "List")
    /\ req[1].key = <<>>
    /\ res[1].err = NilErr
    /\ res[1].list = List(<<kA, <<"b", "/">>, <<"e", "/">> >>)

StrictlyAscending(l) == \A i \in 1..(Len(l) - 1) : StrLess(l[i], l[i + 1])

\* C6: the keys a successful List returns are in strictly ascending order,
\* for every prefix and also when objects are put and deleted between its
\* page requests.
ListAscending ==
    \A c \in Callers :
        (Returning(c, "List") /\ res[c].err = NilErr)
        => /\ ~res[c].list.isNil
           /\ StrictlyAscending(res[c].list.items)

\* List("b") returns ["", "/"] (the object b, and b/c and b/d under "/")
\* although b/c, listed on an earlier page, is deleted by now.
ListAscendingSeen ==
    /\ Returning(1, "List")
    /\ req[1].key = kB
    /\ res[1].err = NilErr
    /\ res[1].list = List(<< <<>>, <<Slash>> >>)
    /\ blobs[kB] = NoVal
    /\ blobs[kBC] = NoVal
    /\ blobs[kBD] # NoVal

\* The callers in a remote call, and those holding a slot.
InFlight == {c \in Callers : pc[c] \in {"call", "read"}}
Holding == {c \in Callers : pc[c] \in {"call", "read", "ret"}}
MaxParallelIs(s) ==
    "max_parallel" \in DOMAIN backendConf /\ backendConf["max_parallel"] = s

\* C7: in a backend constructed with max_parallel = N >= 1, at most N remote
\* operations are in flight.
AdmissionBound ==
    /\ MaxParallelIs(<<"1">>) => Cardinality(InFlight) <= 1
    /\ MaxParallelIs(<<"2">>) => Cardinality(InFlight) <= 2

\* With max_parallel = 1, a caller is in a remote call and another waits.
AdmissionBoundSeen ==
    /\ MaxParallelIs(<<"1">>)
    /\ \E c, d \in Callers : pc[c] = "call" /\ pc[d] = "acquire"

\* C8: the slots held are those of the operations between their acquire and
\* their return, one each; none is held when no operation is running.
SlotsHeld ==
    /\ permitPool.used = Cardinality(Holding)
    /\ (\A c \in Callers : pc[c] = "idle") => permitPool.used = 0

\* An operation that failed has returned and released its slot: the caller
\* that waited for it has the only slot, and is failing too.
SlotsHeldSeen ==
    /\ MaxParallelIs(<<"1">>)
    /\ \E c, d \in Callers :
          /\ pc[c] = "idle"
          /\ pc[d] = "ret"
          /\ req[d].op = "List"
          /\ res[d].err = TransportError
          /\ permitPool.used = 1

\* The constructions that failed on the max_parallel setting.
MaxParallelFailed(n) ==
    /\ npc[n] = "done"
    /\ nres[n].backend.isNil
    /\ nres[n].err.kind = "wrapped"
    /\ nres[n].err.inner = "syntax"

\* C9: a construction that fails on a max_parallel that is no integer has
\* issued no remote call: no GetProperties and no Create.
BadMaxParallelBeforeRemote ==
    \A n \in Ctors :
        MaxParallelFailed(n) => ncalls[n].props = 0 /\ ncalls[n].create = 0

\* The construction that found no container and whose Create succeeded.
CreatedBy(n) ==
    /\ ncalls[n].props = 1
    /\ nremote[n].props = StorageError("ContainerNotFound")
    /\ ncalls[n].create = 1
    /\ nremote[n].create = NilErr
\* The construction whose GetProperties succeeded.
ProbeFound(n) == ncalls[n].props = 1 /\ nremote[n].props = NilErr
IntegerMaxParallel(n) ==
    "max_parallel" \in DOMAIN nconf[n] => nconf[n]["max_parallel"] \in {<<"1">>, <<"2">>}

\* C10: a construction with a valid configuration that found no container and
\* created it returns a backend and no error, and the container exists with
\* access none and no metadata; a construction whose probe succeeded issues
\* no Create.
CreatesMissingContainer ==
    \A n \in Ctors :
        /\ (CreatedBy(n) /\ IntegerMaxParallel(n))
           => /\ npc[n] \in {"maxpar", "done"}
              /\ npc[n] = "done" => (~nres[n].backend.isNil /\ nres[n].err = NilErr)
              /\ container = [exists |-> TRUE, access |-> "none", metadata |-> <<>>]
        /\ ProbeFound(n) => (ncalls[n].create = 0 /\ npc[n] # "create")

\* A construction has returned a backend for the container it created.
CreatesMissingContainerSeen ==
    \E n \in Ctors :
        /\ CreatedBy(n)
        /\ IntegerMaxParallel(n)
        /\ npc[n] = "done"
        /\ ~nres[n].backend.isNil
        /\ nres[n].err = NilErr
        /\ container = [exists |-> TRUE, access |-> "none", metadata |-> <<>>]

\* The construction has returned a backend and no error.
Succeeded(n) ==
    /\ npc[n] = "done"
    /\ ~nres[n].backend.isNil
    /\ nres[n].err = NilErr

\* The construction whose probe reported the container missing and whose
\* Create was answered: created, or already there (another creator won).
LostOrWonCreate(n) ==
    /\ ncalls[n].props = 1
    /\ nremote[n].props = StorageError("ContainerNotFound")
    /\ ncalls[n].create = 1
    /\ nremote[n].create \in {NilErr, StorageError("ContainerAlreadyExists")}

\* C11: when the constructions run concurrently over the same missing
\* container (every probe reported it missing) with valid configuration,
\* every one of them that has returned has succeeded: the loser of the
\* creation race, whose Create is answered "already exists", included.
ConcurrentCreatorsTolerated ==
    (\A n \in Ctors : LostOrWonCreate(n) /\ IntegerMaxParallel(n))
        => \A n \in Ctors : npc[n] = "done" => Succeeded(n)

\* The construction whose probe failed with an error that is not "container
\* not found".
ProbeFailed(n) ==
    /\ ncalls[n].props = 1
    /\ nremote[n].props # NilErr
    /\ nremote[n].props # StorageError("ContainerNotFound")

\* C13: a construction whose probe failed with anything but "container not
\* found" (a structured error with another reason code, or a non-structured
\* error such as a timeout) returns an error and no backend.
ProbeFailureFatal ==
    \A n \in Ctors :
        (ProbeFailed(n) /\ npc[n] = "done")
            => (nres[n].backend.isNil /\ nres[n].err # NilErr)

\* C12: a construction that returns a backend has seen the container exist
\* (its probe succeeded) or has created it (its Create succeeded); otherwise
\* it returns an error.
AllOrNothing ==
    \A n \in Ctors :
        npc[n] = "done"
            => \/ Succeeded(n) /\ (ProbeFound(n) \/ CreatedBy(n))
               \/ nres[n].backend.isNil /\ nres[n].err # NilErr

\* C14: between one acquire and the matching release at most one remote call
\* is issued: no caller, a List over several pages included, has issued more
\* than one remote request under the slot it holds.
SlotGuardsOneCall == \A c \in Callers : issued[c] <= 1

\* C14 (amended): a slot guards one operation. Every remote call is issued by
\* a caller that holds a slot; Put, Get and Delete issue at most one remote
\* call between the acquire and the matching release; List issues its page
\* requests, one after the other, all under the one slot it acquired.
SlotGuardsOneOperation ==
    \A c \in Callers :
        /\ issued[c] > 0 => c \in Holding
        /\ req[c].op \in {"Put", "Get", "Delete"} => issued[c] <= 1
        /\ pc[c] \in {"read", "ret"} => issued[c] >= 1
        /\ (req[c].op = "List" /\ issued[c] > 1) => ~marker[c].isNil

\* A List has sent its second page request under the slot it acquired, while
\* another caller waits for a slot.
SlotGuardsOneOperationSeen ==
    \E c, d \in Callers :
        /\ req[c].op = "List"
        /\ issued[c] = 2
        /\ c \in Holding
        /\ permitPool = [size |-> 1, used |-> 1]
        /\ pc[d] = "acquire"

\* C15: every operation that returns after a remote call failed returns, for
\* a structured failure whose reason code is not "not found", an error that
\* wraps it with the operation's context and the key, and for a
\* non-structured failure that error itself.
StructuredErrorsWrapped ==
    \A c \in Callers :
        (pc[c] = "ret" /\ res[c].remote # NilErr)
            => IF IsStorageError(res[c].remote)
               THEN res[c].remote.code # "BlobNotFound"
                    => /\ res[c].err.kind = "wrapped"
                       /\ res[c].err.inner = "storage"
                       /\ res[c].err.code = res[c].remote.code
                       /\ res[c].err.ctx # ""
                       /\ res[c].err.key = req[c].key
               ELSE res[c].err = res[c].remote

\* A List has returned after a page request failed.
ListFailed(c) == Returning(c, "List") /\ res[c].remote # NilErr

\* C16: a List that returns after one of its page requests failed, the first
\* or a later one, returns the error and a nil list, whatever keys it had
\* accumulated; a List that returns a list returns no error and has been
\* answered a page whose next marker is done.
ListNoPartialResult ==
    \A c \in Callers :
        Returning(c, "List")
            => /\ ListFailed(c) => (res[c].list.isNil /\ res[c].err # NilErr)
               /\ ~res[c].list.isNil
                  => /\ res[c].err = NilErr
                     /\ res[c].remote = NilErr
                     /\ ~NotDone(marker[c])
                     /\ Items(res[c].list.items) = Items(keys[c])

\* A List fails on a later page, with keys accumulated from earlier ones, and
\* returns the error and a nil list.
ListNoPartialResultSeen ==
    \E c \in Callers :
        /\ ListFailed(c)
        /\ issued[c] > 1
        /\ keys[c] # <<>>
        /\ res[c].list.isNil
        /\ res[c].err # NilErr

\* C18: a Get never returns an entry together with an error: it returns an
\* entry and no error, or no entry and no error, or no entry and an error.
GetEntryOrError ==
    \A c \in Callers :
        Returning(c, "Get") => (res[c].entry.isNil \/ res[c].err = NilErr)

\* The setting of conf key confKey and environment variable envKey is in
\* neither.
Missing(n, confKey, envKey) ==
    MapGet(nconf[n], confKey) = "" /\ MapGet(nenv[n], envKey) = ""

\* A required setting of the construction is in neither: the container, the
\* account name or the account key.
RequiredMissing(n) ==
    \/ Missing(n, "container", "AZURE_BLOB_CONTAINER")
    \/ Missing(n, "accountName", "AZURE_ACCOUNT_NAME")
    \/ Missing(n, "accountKey", "AZURE_ACCOUNT_KEY")

\* The construction has failed on a setting that must be set.
ConfigurationError(n) ==
    /\ npc[n] = "done"
    /\ nres[n].backend.isNil
    /\ nres[n].err.kind = "errorf"

\* value is the conf map's when the map has one, else the environment's.
ConfFirst(n, value, confKey, envKey) ==
    value = IF MapGet(nconf[n], confKey) # ""
            THEN MapGet(nconf[n], confKey)
            ELSE MapGet(nenv[n], envKey)

\* value is the environment's when the variable is set, else the conf map's.
EnvFirst(n, value, confKey, envKey) ==
    value = IF MapGet(nenv[n], envKey) # ""
            THEN MapGet(nenv[n], envKey)
            ELSE MapGet(nconf[n], confKey)

\* The construction fails on a missing required setting exactly when one is
\* missing from both sources, and with an ARM endpoint resolved it fetches
\* the environment from that endpoint and never looks the name up.
MissingAndEndpoint(n) ==
    /\ ConfigurationError(n) <=> RequiredMissing(n)
    /\ ~RequiredMissing(n)
       => /\ nsettings[n].environmentURL # "" <=> ncalls[n].arm = 1
          /\ (nsettings[n].environmentURL # "" /\ nres[n].err # NilErr)
             => nres[n].err.ctx #
                  "failed to look up Azure environment descriptor for name %q: {{err}}"
          /\ (nsettings[n].environmentURL = ""
              /\ nsettings[n].environmentName \notin KnownEnvironments)
             => /\ npc[n] = "done"
                /\ nres[n].backend.isNil
                /\ nres[n].err.ctx =
                     "failed to look up Azure environment descriptor for name %q: {{err}}"

\* C17: a construction that has resolved its settings has taken each of
\* container, accountName, accountKey, environment and arm_endpoint from the
\* conf map when it is there and from the environment variable otherwise; it
\* fails with a configuration error exactly when a required one is missing
\* from both; an ARM endpoint overrides the named environment.
ConfigPrecedence ==
    \A n \in Ctors :
        npc[n] # "start"
            => /\ MissingAndEndpoint(n)
               /\ ~RequiredMissing(n)
                  => /\ ConfFirst(n, nsettings[n].name, "container", "AZURE_BLOB_CONTAINER")
                     /\ ConfFirst(n, nsettings[n].accountName, "accountName", "AZURE_ACCOUNT_NAME")
                     /\ ConfFirst(n, nsettings[n].accountKey, "accountKey", "AZURE_ACCOUNT_KEY")
                     /\ \/ ConfFirst(n, nsettings[n].environmentName,
                                     "environment", "AZURE_ENVIRONMENT")
                        \/ /\ Missing(n, "environment", "AZURE_ENVIRONMENT")
                           /\ nsettings[n].environmentName = "AzurePublicCloud"
                     /\ ConfFirst(n, nsettings[n].environmentURL,
                                  "arm_endpoint", "AZURE_ARM_ENDPOINT")

\* C17 (amended): a construction that has resolved its settings has taken
\* each of container, accountName, accountKey, environment and arm_endpoint
\* from the environment variable when that is set and from the conf map
\* otherwise (the environment name defaulting to AzurePublicCloud); it fails
\* with a configuration error exactly when a required one is missing from
\* both; an ARM endpoint overrides the named environment.
EnvPrecedence ==
    \A n \in Ctors :
        npc[n] # "start"
            => /\ MissingAndEndpoint(n)
               /\ ~RequiredMissing(n)
                  => /\ EnvFirst(n, nsettings[n].name, "container", "AZURE_BLOB_CONTAINER")
                     /\ EnvFirst(n, nsettings[n].accountName, "accountName", "AZURE_ACCOUNT_NAME")
                     /\ EnvFirst(n, nsettings[n].accountKey, "accountKey", "AZURE_ACCOUNT_KEY")
                     /\ \/ EnvFirst(n, nsettings[n].environmentName,
                                    "environment", "AZURE_ENVIRONMENT")
                        \/ /\ Missing(n, "environment", "AZURE_ENVIRONMENT")
                           /\ nsettings[n].environmentName = "AzurePublicCloud"
                     /\ EnvFirst(n, nsettings[n].environmentURL,
                                 "arm_endpoint", "AZURE_ARM_ENDPOINT")

\* A construction given one container in its conf map and another in the
\* environment has returned a backend for the environment's; so has one
\* whose environment name is unknown and whose ARM endpoint is set.
EnvPrecedenceSeen ==
    \E n \in Ctors :
        /\ Succeeded(n)
        /\ MapGet(nconf[n], "container") = "vault"
        /\ MapGet(nenv[n], "AZURE_BLOB_CONTAINER") = "env-vault"
        /\ nsettings[n].name = "env-vault"
        /\ nsettings[n].environmentName = "NoSuchCloud"
        /\ nsettings[n].environmentURL # ""

\* While a caller waits for a slot that is not free, some caller holds one
\* and is at a step it can take: in a remote call, reading, or returning.
NoSlotDeadlock ==
    (\E c \in Callers : pc[c] = "acquire" /\ ~PoolHasFree(permitPool))
        => \E d \in Callers :
              /\ d \in Holding
              /\ ENABLED Proceed(d)

\* C19: under fair scheduling, with every remote call answering, every
\* operation that was started returns, whatever the capacity of the pool and
\* however many callers wait; and no state is a deadlock of callers waiting
\* for a slot whose holders cannot move.
Progress ==
    /\ []NoSlotDeadlock
    /\ \A c \in Callers : (pc[c] # "idle") ~> (pc[c] = "idle")

\* A caller waits for the only slot while its holder, a List between two
\* page requests, keeps it.
ProgressSeen ==
    \E c, d \in Callers :
        /\ pc[d] = "acquire"
        /\ pc[c] = "call"
        /\ req[c].op = "List"
        /\ issued[c] = 1
        /\ ~PoolHasFree(permitPool)
        /\ permitPool.size = 1

\* C20: once ClusterName holds a name that is not empty, no step of a
\* SetDefaultClusterName call changes it, whatever calls run concurrently.
ConfiguredNameKept == [][ClusterName # "" => ClusterName' = ClusterName]_vars

====
